---- MODULE Spec2Model ----
(***************************************************************************)
(* A model of the smtpbis session engine (src/src/server.rs): one session  *)
(* leg run by smtp_server / InnerServer::serve, its command reader with    *)
(* the shutdown race, the dispatcher, the DATA and BDAT body streams and   *)
(* the STARTTLS handoff.                                                   *)
(*                                                                         *)
(* The wire is modelled in units: one unit is one CRLF-terminated line.    *)
(* In command mode the codec yields one unit per frame; in chunking mode   *)
(* every unit counts as one octet block of a BDAT chunk, so BDAT sizes are *)
(* given in units.  Nothing reads a unit before the codec yields it, so    *)
(* the buffers hold unit counts and what a unit says is drawn when it is   *)
(* yielded.  Writes to the peer are taken to succeed: the `?` after a      *)
(* send or flush, which ends the session with ServerError::IO, is left     *)
(* out.                                                                    *)
(*                                                                         *)
(* Spec is the session with every interleaving of the peer, the handler    *)
(* and the shutdown signal.  WireSpec runs the same actions for one peer   *)
(* whose units are fixed and numbered when they are sent, so that what the *)
(* handler is given can be compared with what was sent.  DataSpec and      *)
(* ReplySpec apply the DATA body stream and the reply formatter to inputs  *)
(* spelled out in octets.  RoutineSpec applies the MAIL and RSET arms of    *)
(* dispatch_command to every value of State: the session itself reads no   *)
(* command in BDATFAIL, which is only ever set on the way out of serve.    *)
(***************************************************************************)
EXTENDS Naturals, Sequences, FiniteSets, TLC

VARIABLES
    state,             \* InnerServer.state
    shutdown_on_idle,  \* InnerServer.shutdown_on_idle
    shutdown,          \* the ShutdownSignal future: "pending", "fired", "terminated"
    config,            \* Config
    tls,               \* TRUE in the leg the driver runs over the TLS stream
    pc,                \* position of the session task
    exit,              \* result of serve once pc = "exit"
    read_buf,          \* units in the codec's read buffer (FramedParts.read_buf)
    net,               \* units the peer has sent that the codec has not read yet
    conn,              \* the peer's side of the stream: "open", "closed", "failed"
    framing,           \* the codec's framing state
    body_done,         \* Fuse::is_done() of the body stream handed to the handler
    cur,               \* the command being served: what was sent and called for it
    fired_in_tx,       \* the shutdown signal fired while a transaction was open
    wire,              \* the units in flight, numbered as sent (numbered wire only)
    sent,              \* how many units the peer has sent (numbered wire only)
    line,              \* the number of the line last read as a command
    frames,            \* the numbers of the units yielded to the handler as body
    payload,           \* the numbers of the units the peer sent as BDAT payload
    given,             \* the value a routine is applied to (octet level only)
    rest,              \* what the routine has not consumed yet (octet level only)
    made,              \* what the routine has produced so far (octet level only)
    mails,             \* handler.mail returned Ok this often since the state was Initial
    rcpts,             \* handler.rcpt has returned Ok since the state was Initial
    alone              \* a command read of this leg began with the reader alone

\* the variables of the numbered wire
numbered == <<wire, sent, line, frames, payload>>

\* the variables of the octet level
octets == <<given, rest, made>>

\* what a step of the session leaves alone
aside == <<numbered, octets>>

\* what is kept of the leg so far: what the handler has accepted since the
\* state was last Initial, and how command reads began
history == <<mails, rcpts, alone>>

\* the session without the stream under the DATA body
engine == <<state, shutdown_on_idle, shutdown, config, tls, pc, exit, read_buf,
            net, conn, framing, cur, fired_in_tx>>

vars == <<engine, body_done, numbered, octets, history>>

-----------------------------------------------------------------------------
(* Bounds                                                                  *)

MaxWire == 2    \* units in flight (sent by the peer, not yet consumed)
MaxChunk == 1   \* largest BDAT size, in units
MaxBody == 1    \* body frames counted per command (the count saturates)
MaxSent == 6    \* units the peer of the numbered wire sends in all
MaxLine == 2    \* octets of a body line before its CRLF
MaxLines == 2   \* lines of a DATA payload
MaxText == 3    \* octets of a reply text

-----------------------------------------------------------------------------
(* Replies (src/src/reply.rs)                                              *)

Reply(code, text) == [code |-> code, text |-> text]

NoReply == Reply(0, "none")

ReplyOk == Reply(250, "OK")
ReplyBadSequence == Reply(503, "Bad sequence of commands")
ReplyNoMailTransaction == Reply(503, "No mail transaction in progress")
ReplyNoValidRecipients == Reply(554, "No valid recipients")
ReplySyntaxError == Reply(500, "Syntax error")
ReplyNotImplemented == Reply(502, "Command not implemented")

ReplyBanner == Reply(220, "localhost ESMTP smtpbis 0.1.0")
ReplyShutdown == Reply(421, "Shutting down")
ReplyStartingTls == Reply(220, "starting TLS")
ReplyBye == Reply(221, "bye")
ReplyEhlo == Reply(250, "greeting and keywords")
ReplyHeloRefused == Reply(550, "refused")
ReplyMailRefused == Reply(550, "mail transaction refused")
ReplyRcptRefused == Reply(550, "recipient not accepted")
ReplySendData == Reply(354, "send data")
ReplyDataAbort == Reply(550, "data abort")
ReplyDataRefused == Reply(550, "data not accepted")
ReplyMixed == Reply(503, "BDAT may not be mixed with DATA")

\* unwrap_or_else: the handler's reply when it gave one, else the default
UnwrapOr(reply, default) == IF reply = NoReply THEN default ELSE reply

-----------------------------------------------------------------------------
(* Commands and wire units                                                 *)

Line(op) == [op |-> op, size |-> 0, last |-> FALSE]
Bdat(size, last) == [op |-> "BDAT", size |-> size, last |-> last]
NoCmd == Line("none")

BaseOps == {"EHLO", "HELO", "MAIL", "RCPT", "DATA", "RSET", "QUIT"}
OtherOps == {"STARTTLS", "NOOP"}      \* NOOP stands for NOOP, HELP and VRFY
BodyOps == {"TEXT", "DOT", "TRAIL"}   \* a text line, ".\r\n", a command with trailing bytes

Units == {Line(op) : op \in BaseOps \cup OtherOps \cup BodyOps}
            \cup {Bdat(n, l) : n \in 0..MaxChunk, l \in BOOLEAN}

\* command::<Intl> / command::<Legacy>: "Err", "Rem" (parsed, bytes left) or "Ok"
Parse(unit) ==
    CASE unit.op = "TEXT" -> "Err"
      [] unit.op = "DOT" -> "Err"
      [] unit.op = "TRAIL" -> "Rem"
      [] OTHER -> "Ok"

-----------------------------------------------------------------------------
(* Handler outcomes                                                        *)

\* the replies a handler supplies: with Ok, with Err
HandlerAccepts == {Reply(250, "handler accepted")}
HandlerRefuses == {Reply(451, "handler refused")}

\* HandlerResult = Result<Option<Reply>, Option<Reply>>
HandlerResults ==
    [ok : {TRUE}, reply : {NoReply} \cup HandlerAccepts]
        \cup [ok : {FALSE}, reply : {NoReply} \cup HandlerRefuses]

\* the keywords DummyHandler::ehlo adds, or none
HandlerKeywords == {{}, {"DSN", "8BITMIME", "SIZE"}}

-----------------------------------------------------------------------------
(* State                                                                   *)

States == {"Initial", "MAIL", "RCPT", "BDAT", "BDATFAIL"}

Configs == [enable_smtputf8 : BOOLEAN, enable_chunking : BOOLEAN,
            enable_starttls : BOOLEAN]

\* impl Default for Config
DefaultConfig == [enable_smtputf8 |-> TRUE, enable_chunking |-> TRUE,
                  enable_starttls |-> TRUE]

CommandMode == [mode |-> "command", remaining |-> 0]
ChunkingMode(size) == [mode |-> "chunking", remaining |-> size]

\* no reply-level callback has returned
NoResult == [ok |-> TRUE, reply |-> NoReply]

\* Result<Option<Reply>, ServerError> of handler.data and handler.bdat:
\* "none" while the callback has not returned, then "ok" or "err"
Returned(how, reply) == [how |-> how, reply |-> reply]
NoReturn == Returned("none", NoReply)

\* the record kept for the command being served: the command, the state it
\* was read in, the replies sent and the callbacks invoked for it, what the
\* reply-level callback returned, the body frames yielded, whether the body
\* stream yielded an Err item or ended at the end of the input, the
\* keywords of the EHLO reply, the line served before this one, and what
\* handler.data or handler.bdat returned
NewCur(s) == [cmd |-> NoCmd, pre |-> s, replies |-> <<>>, calls |-> {},
              res |-> NoResult, body |-> 0, err |-> FALSE, trunc |-> FALSE,
              kw |-> {}, prev |-> "none", ret |-> NoReturn]

NextCur(c, s) ==
    [NewCur(s) EXCEPT !.prev = IF c.cmd = NoCmd THEN c.prev ELSE c.cmd.op]

Send(c, reply) == [c EXCEPT !.replies = Append(@, reply)]
Call(c, name) == [c EXCEPT !.calls = @ \cup {name}]

Min(a, b) == IF a < b THEN a ELSE b

-----------------------------------------------------------------------------
(* The line codec: what one poll of the framed stream can return.          *)
(* kind: "frame" (a line), "chunk" (n units of a chunk), "done"            *)
(* (ChunkingDone), "err" (the read failed), "eof" (None), "pending".       *)

Polled(kind, n, rb, nt, fr) ==
    [kind |-> kind, n |-> n, rb |-> rb, nt |-> nt, fr |-> fr]

\* command mode: the first line of the buffer, reading from the stream when
\* the buffer holds none (a read takes any non-empty prefix of what arrived)
LinePolls(rb, nt, cn, fr) ==
    IF rb > 0
    THEN {Polled("frame", 1, rb - 1, nt, fr)}
    ELSE IF cn = "failed"
    THEN {Polled("err", 0, rb, nt, fr)}
    ELSE IF nt > 0
    THEN {Polled("frame", 1, k - 1, nt - k, fr) : k \in 1..nt}
    ELSE IF cn = "closed"
    THEN {Polled("eof", 0, rb, nt, fr)}
    ELSE {Polled("pending", 0, rb, nt, fr)}

\* chunking mode: min(remaining, available) units, then ChunkingDone and
\* back to command mode
ChunkPolls(rb, nt, cn, fr) ==
    IF fr.remaining = 0
    THEN {Polled("done", 0, rb, nt, CommandMode)}
    ELSE IF rb > 0
    THEN LET n == Min(fr.remaining, rb)
         IN {Polled("chunk", n, rb - n, nt, ChunkingMode(fr.remaining - n))}
    ELSE IF cn = "failed"
    THEN {Polled("err", 0, rb, nt, fr)}
    ELSE IF nt > 0
    THEN {LET n == Min(fr.remaining, k)
          IN Polled("chunk", n, k - n, nt - k, ChunkingMode(fr.remaining - n))
          : k \in 1..nt}
    ELSE IF cn = "closed"
    THEN {Polled("eof", 0, rb, nt, fr)}
    ELSE {Polled("pending", 0, rb, nt, fr)}

Polls(rb, nt, cn, fr) ==
    IF fr.mode = "command" THEN LinePolls(rb, nt, cn, fr)
    ELSE ChunkPolls(rb, nt, cn, fr)

ReaderPolls == Polls(read_buf, net, conn, framing)

ReaderReady == \E p \in ReaderPolls : p.kind /= "pending"

-----------------------------------------------------------------------------
(* smtp_server: the state a leg starts in                                  *)

\* mutant: the signal never reports that it has completed
is_terminated_never(signal) == FALSE

\* FusedFuture::is_terminated of the shutdown signal
is_terminated(signal) == signal = "terminated"

StartLeg(banner) ==
    /\ state' = "Initial"
    /\ shutdown_on_idle' = is_terminated(shutdown)
    /\ pc' = "read"
    /\ exit' = "none"
    /\ read_buf' = 0
    /\ framing' = CommandMode
    /\ body_done' = FALSE
    /\ cur' = IF banner THEN Send(NewCur("Initial"), ReplyBanner)
              ELSE NewCur("Initial")

Init ==
    /\ state = "Initial"
    /\ shutdown \in {"pending", "fired", "terminated"}
    /\ shutdown_on_idle = is_terminated(shutdown)
    /\ config \in Configs
    /\ tls = FALSE
    /\ pc = "read"
    /\ exit = "none"
    /\ read_buf = 0
    /\ net = 0
    /\ conn = "open"
    /\ framing = CommandMode
    /\ body_done = FALSE
    /\ cur = Send(NewCur("Initial"), ReplyBanner)
    /\ fired_in_tx = FALSE
    /\ wire = <<>>
    /\ sent = 0
    /\ line = 0
    /\ frames = <<>>
    /\ payload = <<>>
    /\ mails = 0
    /\ rcpts = FALSE
    /\ alone = FALSE
    /\ given = <<>>
    /\ rest = <<>>
    /\ made = <<>>

-----------------------------------------------------------------------------
(* The environment: the peer and the shutdown signal                       *)

Running == pc /= "exit"

InTransaction == state \in {"RCPT", "BDAT"}

Arrive ==
    /\ Running
    /\ conn = "open"
    /\ net + read_buf < MaxWire
    /\ net' = net + 1
    /\ UNCHANGED <<state, shutdown_on_idle, shutdown, config, tls, pc, exit,
                   read_buf, conn, framing, body_done, cur, fired_in_tx>>

Close ==
    /\ Running
    /\ conn = "open"
    /\ conn' = "closed"
    /\ UNCHANGED <<state, shutdown_on_idle, shutdown, config, tls, pc, exit,
                   read_buf, net, framing, body_done, cur, fired_in_tx>>

Fail ==
    /\ Running
    /\ conn = "open"
    /\ conn' = "failed"
    /\ net' = 0
    /\ UNCHANGED <<state, shutdown_on_idle, shutdown, config, tls, pc, exit,
                   read_buf, framing, body_done, cur, fired_in_tx>>

Fire ==
    /\ Running
    /\ shutdown = "pending"
    /\ shutdown' = "fired"
    /\ fired_in_tx' = InTransaction
    /\ UNCHANGED <<state, shutdown_on_idle, config, tls, pc, exit, read_buf,
                   net, conn, framing, body_done, cur>>

-----------------------------------------------------------------------------
(* serve: leaving the loop                                                 *)

Exit(result) ==
    /\ pc' = "exit"
    /\ exit' = result

\* mutant: the flag is not looked at
shutdown_check_never(flag, s) == "Ok"

\* mutant: the shutdown is taken in any state
shutdown_check_any_state(flag, s) == IF flag THEN "Shutdown" ELSE "Ok"

\* fn shutdown_check
shutdown_check(flag, s) ==
    IF flag /\ s \in {"Initial", "BDATFAIL"} THEN "Shutdown" ELSE "Ok"

\* serve, Err(ServerError::Shutdown) arm: 421 and LoopExit::Done
ShutdownExit ==
    /\ Exit("Done")
    /\ cur' = Send(NextCur(cur, state), ReplyShutdown)

-----------------------------------------------------------------------------
(* read_command                                                            *)

\* entry: shutdown_check()?, then either the reader alone or the select
ReadCommand ==
    /\ pc = "read"
    /\ IF shutdown_check(shutdown_on_idle, state) = "Shutdown"
       THEN ShutdownExit
       ELSE /\ pc' = IF is_terminated(shutdown) THEN "await_line" ELSE "select"
            /\ cur' = NextCur(cur, state)
            /\ UNCHANGED exit
    /\ UNCHANGED <<state, shutdown_on_idle, shutdown, config, tls, read_buf,
                   net, conn, framing, body_done, fired_in_tx>>

\* mutant: bytes left over by the parser are not looked at
parse_res_ignores_rem(parsed) == IF parsed = "Err" THEN "SyntaxError" ELSE "Ok"

\* read_command, match parse_res: Err(_) and Ok((rem, _)) with rem not empty
\* are both SyntaxError
parse_res(parsed) ==
    CASE parsed = "Err" -> "SyntaxError"
      [] parsed = "Rem" -> "SyntaxError"
      [] OTHER -> "Ok"

\* the line (or the end of the stream) reaches read_command: ok_or(EOF)??,
\* the parse, and serve's SyntaxError arm
TakeLine(p, u) ==
    /\ read_buf' = p.rb
    /\ net' = p.nt
    /\ framing' = p.fr
    /\ CASE p.kind = "eof" -> Exit("EOF") /\ UNCHANGED cur
         [] p.kind = "err" -> Exit("IO") /\ UNCHANGED cur
         [] p.kind = "done" -> Exit("Framing") /\ UNCHANGED cur
         [] OTHER ->
              LET unit == IF p.kind = "frame" THEN u ELSE Line("TEXT")
                  c == [cur EXCEPT !.cmd = unit]
              IN IF parse_res(Parse(unit)) = "Ok"
                 THEN /\ pc' = "dispatch"
                      /\ cur' = c
                      /\ UNCHANGED exit
                 ELSE /\ pc' = "read"
                      /\ cur' = Send(c, ReplySyntaxError)
                      /\ UNCHANGED exit
    /\ UNCHANGED <<state, shutdown_on_idle, shutdown, config, tls, conn,
                   body_done, fired_in_tx>>

\* select(reader.next(), shutdown): the reader is polled first
SelectLeft ==
    /\ pc = "select"
    /\ \E p \in ReaderPolls, u \in Units : p.kind /= "pending" /\ TakeLine(p, u)

\* Either::Right: the signal resolved and no line was ready
SelectRight ==
    /\ pc = "select"
    /\ ~ReaderReady
    /\ shutdown = "fired"
    /\ shutdown' = "terminated"
    /\ shutdown_on_idle' = TRUE
    /\ IF shutdown_check(TRUE, state) = "Shutdown"
       THEN ShutdownExit
       ELSE /\ pc' = "await_line"
            /\ UNCHANGED <<exit, cur>>
    /\ UNCHANGED <<state, config, tls, read_buf, net, conn, framing,
                   body_done, fired_in_tx>>

\* reader.next().await or cmd_fut.await: the reader alone
AwaitLine ==
    /\ pc = "await_line"
    /\ \E p \in ReaderPolls, u \in Units : p.kind /= "pending" /\ TakeLine(p, u)

-----------------------------------------------------------------------------
(* The per-command routines, as functions of the state and of what the     *)
(* handler returned: the next state, the reply, whether the handler ran.   *)

Outcome(s, reply, called) == [state |-> s, reply |-> reply, called |-> called]

\* do_ehlo: the keywords offered to the handler
InitialKeywords(cfg) ==
    {"PIPELINING", "ENHANCEDSTATUSCODES"}
        \cup (IF cfg.enable_smtputf8 THEN {"SMTPUTF8"} ELSE {})
        \cup (IF cfg.enable_chunking THEN {"CHUNKING"} ELSE {})
        \cup (IF cfg.enable_starttls THEN {"STARTTLS"} ELSE {})

\* mutant: EHLO is refused inside a transaction
do_ehlo_sequenced(s, ok, reply) ==
    IF s /= "Initial" THEN Outcome(s, ReplyBadSequence, TRUE)
    ELSE IF ok THEN Outcome("Initial", ReplyEhlo, TRUE)
    ELSE Outcome(s, reply, TRUE)

\* do_ehlo: handler.ehlo returns Err(reply) or Ok((greeting, keywords))
do_ehlo(s, ok, reply) ==
    IF ok THEN Outcome("Initial", ReplyEhlo, TRUE)
    ELSE Outcome(s, reply, TRUE)

\* mutant: a refused HELO resets the state all the same
do_helo_resets_on_err(s, res) ==
    IF res.ok THEN Outcome("Initial", UnwrapOr(res.reply, ReplyOk), TRUE)
    ELSE Outcome("Initial", UnwrapOr(res.reply, ReplyHeloRefused), TRUE)

do_helo(s, res) ==
    IF res.ok THEN Outcome("Initial", UnwrapOr(res.reply, ReplyOk), TRUE)
    ELSE Outcome(s, UnwrapOr(res.reply, ReplyHeloRefused), TRUE)

\* mutant: MAIL is accepted in BDATFAIL as it is in Initial
do_mail_after_bdatfail(s, res) ==
    IF s \in {"Initial", "BDATFAIL"}
    THEN IF res.ok THEN Outcome("MAIL", UnwrapOr(res.reply, ReplyOk), TRUE)
         ELSE Outcome(s, UnwrapOr(res.reply, ReplyMailRefused), TRUE)
    ELSE Outcome(s, ReplyBadSequence, FALSE)

\* mutant: MAIL is accepted in every state
do_mail_anywhere(s, res) ==
    IF res.ok THEN Outcome("MAIL", UnwrapOr(res.reply, ReplyOk), TRUE)
    ELSE Outcome(s, UnwrapOr(res.reply, ReplyMailRefused), TRUE)

do_mail(s, res) ==
    IF s = "Initial"
    THEN IF res.ok THEN Outcome("MAIL", UnwrapOr(res.reply, ReplyOk), TRUE)
         ELSE Outcome(s, UnwrapOr(res.reply, ReplyMailRefused), TRUE)
    ELSE Outcome(s, ReplyBadSequence, FALSE)

\* mutant: a recipient is taken without a MAIL before it
do_rcpt_without_mail(s, res) ==
    IF s \in {"Initial", "MAIL", "RCPT"}
    THEN IF res.ok THEN Outcome("RCPT", UnwrapOr(res.reply, ReplyOk), TRUE)
         ELSE Outcome(s, UnwrapOr(res.reply, ReplyRcptRefused), TRUE)
    ELSE Outcome(s, ReplyBadSequence, FALSE)

\* mutant: the handler is asked about a recipient before the state is looked at
do_rcpt_asks_first(s, res) ==
    IF res.ok
    THEN IF s \in {"MAIL", "RCPT"}
         THEN Outcome("RCPT", UnwrapOr(res.reply, ReplyOk), TRUE)
         ELSE Outcome(s, ReplyBadSequence, TRUE)
    ELSE Outcome(s, UnwrapOr(res.reply, ReplyRcptRefused), TRUE)

do_rcpt(s, res) ==
    IF s \in {"MAIL", "RCPT"}
    THEN IF res.ok THEN Outcome("RCPT", UnwrapOr(res.reply, ReplyOk), TRUE)
         ELSE Outcome(s, UnwrapOr(res.reply, ReplyRcptRefused), TRUE)
    ELSE Outcome(s, ReplyBadSequence, FALSE)

\* mutant: RSET answers without resetting the state
do_rset_keeps_state(s) == Outcome(s, ReplyOk, TRUE)

\* dispatch_command, RSET arm
do_rset(s) == Outcome("Initial", ReplyOk, TRUE)

\* mutant: DATA in BDAT or BDATFAIL is refused like DATA in Initial
do_data_unmixed(s, res) ==
    CASE s = "RCPT" ->
           IF res.ok THEN Outcome(s, UnwrapOr(res.reply, ReplySendData), TRUE)
           ELSE Outcome(s, UnwrapOr(res.reply, ReplyDataRefused), TRUE)
      [] s = "MAIL" -> Outcome(s, ReplyNoValidRecipients, FALSE)
      [] OTHER -> Outcome(s, ReplyNoMailTransaction, FALSE)

\* do_data up to the body: with called and res.ok the reply is the 354 and
\* the body stream is opened
do_data(s, res) ==
    CASE s = "RCPT" ->
           IF res.ok THEN Outcome(s, UnwrapOr(res.reply, ReplySendData), TRUE)
           ELSE Outcome(s, UnwrapOr(res.reply, ReplyDataRefused), TRUE)
      [] s = "Initial" -> Outcome(s, ReplyNoMailTransaction, FALSE)
      [] s = "MAIL" -> Outcome(s, ReplyNoValidRecipients, FALSE)
      [] OTHER -> Outcome(s, ReplyMixed, FALSE)

\* mutant: the is_done() test is left out
do_data_end_unchecked(s, done, reply) ==
    [state |-> "Initial", reply |-> UnwrapOr(reply, ReplyOk), abort |-> FALSE]

\* mutant: after an early return the 550 is sent and serve loops on
do_data_end_goes_on(s, done, reply) ==
    IF ~done
    THEN [state |-> s, reply |-> UnwrapOr(reply, ReplyDataAbort), abort |-> FALSE]
    ELSE [state |-> "Initial", reply |-> UnwrapOr(reply, ReplyOk), abort |-> FALSE]

\* do_data once handler.data returned Ok(reply): the is_done() test
do_data_end(s, done, reply) ==
    IF ~done
    THEN [state |-> s, reply |-> UnwrapOr(reply, ReplyDataAbort), abort |-> TRUE]
    ELSE [state |-> "Initial", reply |-> UnwrapOr(reply, ReplyOk), abort |-> FALSE]

\* do_bdat up to the body: called means the chunk stream is opened
do_bdat(s) ==
    CASE s \in {"RCPT", "BDAT"} -> Outcome(s, NoReply, TRUE)
      [] s = "MAIL" -> Outcome(s, ReplyNoValidRecipients, FALSE)
      [] OTHER -> Outcome(s, ReplyNoMailTransaction, FALSE)

\* mutant: after an early return the 550 is sent and serve loops on
do_bdat_end_goes_on(s, done, last, reply) ==
    IF ~done
    THEN [state |-> "BDATFAIL", reply |-> UnwrapOr(reply, ReplyDataAbort),
          abort |-> FALSE]
    ELSE [state |-> IF last THEN "Initial" ELSE "BDAT",
          reply |-> UnwrapOr(reply, ReplyOk), abort |-> FALSE]

\* do_bdat once handler.bdat returned Ok(reply)
do_bdat_end(s, done, last, reply) ==
    IF ~done
    THEN [state |-> "BDATFAIL", reply |-> UnwrapOr(reply, ReplyDataAbort),
          abort |-> TRUE]
    ELSE [state |-> IF last THEN "Initial" ELSE "BDAT",
          reply |-> UnwrapOr(reply, ReplyOk), abort |-> FALSE]

\* mutant: BDAT is served whatever the configuration says
Route_bdat_always(cmd, cfg) ==
    CASE cmd.op \in BaseOps -> cmd.op
      [] cmd.op = "STARTTLS" /\ cfg.enable_starttls -> "STARTTLS"
      [] cmd.op = "BDAT" -> "BDAT"
      [] OTHER -> "not_implemented"

\* mutant: STARTTLS is served whatever the configuration says
Route_starttls_always(cmd, cfg) ==
    CASE cmd.op \in BaseOps -> cmd.op
      [] cmd.op = "STARTTLS" -> "STARTTLS"
      [] cmd.op = "BDAT" /\ cfg.enable_chunking -> "BDAT"
      [] OTHER -> "not_implemented"

\* dispatch_command: the arm a command is routed to
Route(cmd, cfg) ==
    CASE cmd.op \in BaseOps -> cmd.op
      [] cmd.op = "STARTTLS" /\ cfg.enable_starttls -> "STARTTLS"
      [] cmd.op = "BDAT" /\ cfg.enable_chunking -> "BDAT"
      [] OTHER -> "not_implemented"

\* mutant: the 220 is written before the read buffer is looked at
tls_reply_early(checked) == IF checked THEN <<>> ELSE <<ReplyStartingTls>>

\* serve, STARTTLS arm: what is written to the raw stream before
\* (checked FALSE) and after (checked TRUE) the test of the read buffer
tls_reply(checked) == IF checked THEN <<ReplyStartingTls>> ELSE <<>>

\* mutant: the read buffer is not looked at
starttls_handoff_unchecked(rb) == "STARTTLS"

\* serve, STARTTLS arm: Pipelining when the read buffer is not empty
starttls_handoff(rb) == IF rb > 0 THEN "Pipelining" ELSE "STARTTLS"

-----------------------------------------------------------------------------
(* dispatch_command                                                        *)

Dispatching(arm) == pc = "dispatch" /\ Route(cur.cmd, config) = arm

\* the reply is sent and serve loops to the next read_command
Served(o, name, res) ==
    /\ state' = o.state
    /\ pc' = "read"
    /\ cur' = Send(IF o.called THEN [Call(cur, name) EXCEPT !.res = res]
                   ELSE cur, o.reply)
    /\ UNCHANGED exit

Reading == <<shutdown_on_idle, shutdown, config, tls, read_buf, net, conn,
             framing, body_done, fired_in_tx>>

DoEhlo ==
    /\ Dispatching("EHLO")
    /\ \E ok \in BOOLEAN, reply \in HandlerRefuses, extra \in HandlerKeywords :
         LET o == do_ehlo(state, ok, reply)
         IN /\ state' = o.state
            /\ pc' = "read"
            /\ cur' = [Send(Call(cur, "ehlo"), o.reply) EXCEPT
                         !.res = [ok |-> ok,
                                  reply |-> IF ok THEN NoReply ELSE reply],
                         !.kw = IF ok THEN InitialKeywords(config) \cup extra
                                ELSE {}]
            /\ UNCHANGED exit
    /\ UNCHANGED Reading

DoHelo ==
    /\ Dispatching("HELO")
    /\ \E res \in HandlerResults : Served(do_helo(state, res), "helo", res)
    /\ UNCHANGED Reading

DoMail ==
    /\ Dispatching("MAIL")
    /\ \E res \in HandlerResults : Served(do_mail(state, res), "mail", res)
    /\ UNCHANGED Reading

DoRcpt ==
    /\ Dispatching("RCPT")
    /\ \E res \in HandlerResults : Served(do_rcpt(state, res), "rcpt", res)
    /\ UNCHANGED Reading

\* DATA: refused, or the 354 is sent and handler.data runs on the body stream
DoData ==
    /\ Dispatching("DATA")
    /\ \E res \in HandlerResults :
         LET o == do_data(state, res)
         IN IF o.called /\ res.ok
            THEN /\ pc' = "data_body"
                 /\ cur' = Call(Send([Call(cur, "data_start") EXCEPT !.res = res],
                                      o.reply), "data")
                 /\ body_done' = FALSE
                 /\ UNCHANGED <<state, exit>>
            ELSE /\ Served(o, "data_start", res)
                 /\ UNCHANGED body_done
    /\ UNCHANGED <<shutdown_on_idle, shutdown, config, tls, read_buf, net,
                   conn, framing, fired_in_tx>>

DoQuit ==
    /\ Dispatching("QUIT")
    /\ Exit("Done")
    /\ cur' = Send(cur, ReplyBye)
    /\ UNCHANGED state
    /\ UNCHANGED Reading

DoRset ==
    /\ Dispatching("RSET")
    /\ Served(do_rset(state), "rset", NoResult)
    /\ UNCHANGED Reading

\* STARTTLS: handler.tls_request, then Some(LoopExit::STARTTLS) back to
\* serve, which awaits socket.flush(), or the 502
DoStartTls ==
    /\ Dispatching("STARTTLS")
    /\ \E offered \in BOOLEAN :
         IF offered
         THEN /\ pc' = "tls_flush"
              /\ cur' = Call(cur, "tls_request")
              /\ UNCHANGED <<state, exit>>
         ELSE Served(Outcome(state, ReplyNotImplemented, TRUE), "tls_request", NoResult)
    /\ UNCHANGED Reading

\* serve, STARTTLS arm: the flush is done, the codec is taken apart and its
\* read buffer looked at; then io.write_all is awaited
TlsFlush ==
    /\ pc = "tls_flush"
    /\ LET result == starttls_handoff(read_buf)
       IN /\ IF result = "Pipelining" THEN Exit(result)
             ELSE pc' = "tls_write" /\ UNCHANGED exit
          /\ cur' = [cur EXCEPT !.replies = @ \o tls_reply(FALSE)]
    /\ UNCHANGED state
    /\ UNCHANGED Reading

\* serve, STARTTLS arm: the 220 is written to the raw stream and
\* LoopExit::STARTTLS returned
TlsWrite ==
    /\ pc = "tls_write"
    /\ Exit("STARTTLS")
    /\ cur' = [cur EXCEPT !.replies = @ \o tls_reply(TRUE)]
    /\ UNCHANGED state
    /\ UNCHANGED Reading

\* BDAT: refused, or the codec is switched to chunking mode and
\* handler.bdat runs on the chunk stream
DoBdat ==
    /\ Dispatching("BDAT")
    /\ LET o == do_bdat(state)
       IN IF o.called
          THEN /\ pc' = "bdat_body"
               /\ cur' = Call(cur, "bdat")
               /\ framing' = ChunkingMode(cur.cmd.size)
               /\ body_done' = FALSE
               /\ UNCHANGED <<state, exit>>
          ELSE /\ Served(o, "bdat", NoResult)
               /\ UNCHANGED <<framing, body_done>>
    /\ UNCHANGED <<shutdown_on_idle, shutdown, config, tls, read_buf, net,
                   conn, fired_in_tx>>

DoNotImplemented ==
    /\ Dispatching("not_implemented")
    /\ Served(Outcome(state, ReplyNotImplemented, FALSE), "none", NoResult)
    /\ UNCHANGED Reading

-----------------------------------------------------------------------------
(* The body streams and the handler consuming them                         *)

\* read_body_data on one item of the line stream: "end" (the terminator or
\* the end of the stream), "err" (an Err item passed on) or "item"
read_body_data(p, u) ==
    CASE p.kind = "eof" -> "end"
      [] p.kind = "frame" /\ u = Line("DOT") -> "end"
      [] p.kind \in {"err", "done"} -> "err"
      [] OTHER -> "item"

\* mutant: the take_while test is inverted
read_body_bdat_inverted(p) ==
    CASE p.kind = "eof" -> "end"
      [] p.kind = "done" -> "err"
      [] OTHER -> "end"

\* read_body_bdat on one item of the chunk stream
read_body_bdat(p) ==
    CASE p.kind = "eof" -> "end"
      [] p.kind = "done" -> "end"
      [] p.kind = "err" -> "err"
      [] OTHER -> "item"

\* the handler takes the next item of its stream
Yield(p, what) ==
    /\ read_buf' = p.rb
    /\ net' = p.nt
    /\ framing' = p.fr
    /\ body_done' = (what = "end")
    /\ cur' = CASE what = "item" ->
                     [cur EXCEPT !.body = Min(@ + p.n, MaxBody)]
                [] what = "err" -> [cur EXCEPT !.err = TRUE]
                [] OTHER -> [cur EXCEPT !.trunc = (p.kind = "eof")]
    /\ UNCHANGED <<state, shutdown_on_idle, shutdown, config, tls, pc, exit,
                   conn, fired_in_tx>>

DataNext ==
    /\ pc = "data_body"
    /\ ~body_done
    /\ \E p \in ReaderPolls, u \in Units :
         p.kind /= "pending" /\ Yield(p, read_body_data(p, u))

BdatNext ==
    /\ pc = "bdat_body"
    /\ ~body_done
    /\ \E p \in ReaderPolls : p.kind /= "pending" /\ Yield(p, read_body_bdat(p))

\* the handler returned Ok(reply)
BodyEnd(o, reply) ==
    /\ state' = o.state
    /\ cur' = Send([cur EXCEPT !.ret = Returned("ok", reply)], o.reply)
    /\ IF o.abort THEN Exit("DataAbort")
       ELSE pc' = "read" /\ UNCHANGED exit
    /\ UNCHANGED Reading

DataReturnOk ==
    /\ pc = "data_body"
    /\ \E reply \in {NoReply} \cup HandlerAccepts :
         BodyEnd(do_data_end(state, body_done, reply), reply)

\* handler.data(..).await? with Err(e)
DataReturnErr ==
    /\ pc = "data_body"
    /\ Exit("Handler")
    /\ cur' = [cur EXCEPT !.ret = Returned("err", NoReply)]
    /\ UNCHANGED state
    /\ UNCHANGED Reading

BdatReturnOk ==
    /\ pc = "bdat_body"
    /\ \E reply \in {NoReply} \cup HandlerAccepts :
         BodyEnd(do_bdat_end(state, body_done, cur.cmd.last, reply), reply)

\* handler.bdat(..).await.map_err(..)? with Err(e)
BdatReturnErr ==
    /\ pc = "bdat_body"
    /\ Exit("Handler")
    /\ state' = "BDATFAIL"
    /\ cur' = [cur EXCEPT !.ret = Returned("err", NoReply)]
    /\ UNCHANGED Reading

-----------------------------------------------------------------------------
(* The driver: after LoopExit::STARTTLS the session is run again over the  *)
(* TLS stream, without banner and with STARTTLS no longer on offer.        *)

TlsReenter ==
    /\ pc = "exit"
    /\ exit = "STARTTLS"
    /\ ~tls
    /\ conn = "open"
    /\ StartLeg(FALSE)
    /\ tls' = TRUE
    /\ config' = [config EXCEPT !.enable_starttls = FALSE]
    /\ net' = 0
    /\ fired_in_tx' = FALSE
    /\ UNCHANGED <<shutdown, conn>>

-----------------------------------------------------------------------------

\* handler.mail or handler.rcpt returned Ok in this step of dispatch_command
Accepted(name) == pc = "dispatch" /\ name \in cur'.calls /\ cur'.res.ok

\* the ledger of a step: cleared when the step ends in the state Initial,
\* else what mail and rcpt accepted is added (2 stands for more than once)
Tally ==
    /\ mails' = IF state' = "Initial" THEN 0
                 ELSE IF Accepted("mail") THEN Min(mails + 1, 2) ELSE mails
    /\ rcpts' = IF state' = "Initial" THEN FALSE
                 ELSE rcpts \/ Accepted("rcpt")

\* read_command went straight to reader.next().await: is_terminated() was
\* true when it began; a new leg starts with no command read
ReadsAlone ==
    alone' = IF tls' /= tls THEN FALSE
             ELSE alone \/ (pc = "read" /\ pc' = "await_line")

\* what a step of the session adds to the history of the leg
Noted == Tally /\ ReadsAlone

\* the session, the units not numbered
Next ==
    \/ Arrive /\ Noted /\ UNCHANGED aside
    \/ Close /\ Noted /\ UNCHANGED aside
    \/ Fail /\ Noted /\ UNCHANGED aside
    \/ Fire /\ Noted /\ UNCHANGED aside
    \/ ReadCommand /\ Noted /\ UNCHANGED aside
    \/ SelectLeft /\ Noted /\ UNCHANGED aside
    \/ SelectRight /\ Noted /\ UNCHANGED aside
    \/ AwaitLine /\ Noted /\ UNCHANGED aside
    \/ DoEhlo /\ Noted /\ UNCHANGED aside
    \/ DoHelo /\ Noted /\ UNCHANGED aside
    \/ DoMail /\ Noted /\ UNCHANGED aside
    \/ DoRcpt /\ Noted /\ UNCHANGED aside
    \/ DoData /\ Noted /\ UNCHANGED aside
    \/ DoQuit /\ Noted /\ UNCHANGED aside
    \/ DoRset /\ Noted /\ UNCHANGED aside
    \/ DoStartTls /\ Noted /\ UNCHANGED aside
    \/ TlsFlush /\ Noted /\ UNCHANGED aside
    \/ TlsWrite /\ Noted /\ UNCHANGED aside
    \/ DoBdat /\ Noted /\ UNCHANGED aside
    \/ DoNotImplemented /\ Noted /\ UNCHANGED aside
    \/ DataNext /\ Noted /\ UNCHANGED aside
    \/ DataReturnOk /\ Noted /\ UNCHANGED aside
    \/ DataReturnErr /\ Noted /\ UNCHANGED aside
    \/ BdatNext /\ Noted /\ UNCHANGED aside
    \/ BdatReturnOk /\ Noted /\ UNCHANGED aside
    \/ BdatReturnErr /\ Noted /\ UNCHANGED aside
    \/ TlsReenter /\ Noted /\ UNCHANGED aside

Spec == Init /\ [][Next]_vars

-----------------------------------------------------------------------------
(* The numbered wire: the same session with a peer whose units are fixed   *)
(* and numbered 1, 2, ... when they are sent.  wire holds the units in     *)
(* flight in order (the read buffer first); a step of the session that     *)
(* takes k units out of the codec takes the first k of wire.               *)

\* what the peer of the numbered wire sends
WireUnits == {Line(op) : op \in {"MAIL", "RCPT", "DATA", "DOT"}}
                \cup {Bdat(n, l) : n \in 0..MaxChunk, l \in BOOLEAN}

\* the units that leave the codec in a step
Taken == (read_buf + net) - (read_buf' + net')

Numbers(k) == [i \in 1..k |-> wire[i].id]

\* the numbers of the payload a BDAT line announces: the size units after it
Announced(unit, id) ==
    IF unit.op = "BDAT" THEN [i \in 1..unit.size |-> id + i] ELSE <<>>

\* the session's step seen on the numbered wire: a line read as a command
\* is the first unit of wire; in the chunk stream the k units taken are
\* yielded; in the DATA stream the unit taken is yielded unless it is the
\* terminator.  The handler leaves every reply to the engine.
Numbered(step) ==
    /\ step
    /\ Noted
    /\ cur'.res.reply = NoReply
    /\ cur'.ret.reply = NoReply
    /\ wire' = SubSeq(wire, Taken + 1, Len(wire))
    /\ sent' = sent
    /\ UNCHANGED octets
    /\ CASE pc \in {"select", "await_line"} /\ Taken = 1 ->
              /\ cur'.cmd = wire[1].unit
              /\ line' = wire[1].id
              /\ frames' = IF state = "BDAT" THEN frames ELSE <<>>
              /\ payload' = (IF state = "BDAT" THEN payload ELSE <<>>)
                                \o Announced(wire[1].unit, wire[1].id)
         [] pc = "bdat_body" ->
              /\ frames' = IF ~body_done' /\ cur'.err = cur.err
                            THEN frames \o Numbers(Taken) ELSE frames
              /\ UNCHANGED <<line, payload>>
         [] pc = "data_body" /\ Taken = 1 ->
              /\ body_done' = (wire[1].unit = Line("DOT"))
              /\ frames' = IF body_done' THEN frames
                            ELSE Append(frames, wire[1].id)
              /\ UNCHANGED <<line, payload>>
         [] OTHER -> UNCHANGED <<line, frames, payload>>

WireInit ==
    /\ Init
    /\ shutdown = "pending"
    /\ config = DefaultConfig

WireArrive ==
    /\ Arrive
    /\ sent < MaxSent
    /\ sent' = sent + 1
    /\ \E u \in WireUnits : wire' = Append(wire, [unit |-> u, id |-> sent + 1])
    /\ UNCHANGED <<line, frames, payload, octets, history>>

\* the peer of the numbered wire hangs up inside a body (a connection
\* closed between commands is part of Spec)
WireClose ==
    /\ Close
    /\ pc \in {"data_body", "bdat_body"}
    /\ UNCHANGED <<aside, history>>

WireReadCommand == Numbered(ReadCommand)
WireSelectLeft == Numbered(SelectLeft)
WireDoMail == Numbered(DoMail)
WireDoRcpt == Numbered(DoRcpt)
WireDoData == Numbered(DoData)
WireDoBdat == Numbered(DoBdat)
WireDataNext == Numbered(DataNext)
WireDataReturnOk == Numbered(DataReturnOk)
WireDataReturnErr == Numbered(DataReturnErr)
WireBdatNext == Numbered(BdatNext)
WireBdatReturnOk == Numbered(BdatReturnOk)
WireBdatReturnErr == Numbered(BdatReturnErr)

WireNext ==
    \/ WireArrive
    \/ WireClose
    \/ WireReadCommand
    \/ WireSelectLeft
    \/ WireDoMail
    \/ WireDoRcpt
    \/ WireDoData
    \/ WireDoBdat
    \/ WireDataNext
    \/ WireDataReturnOk
    \/ WireDataReturnErr
    \/ WireBdatNext
    \/ WireBdatReturnOk
    \/ WireBdatReturnErr

WireSpec == WireInit /\ [][WireNext]_vars

-----------------------------------------------------------------------------
(* The MAIL and RSET arms of dispatch_command on every value of State.     *)

RoutineInit ==
    /\ state \in States
    /\ shutdown_on_idle = FALSE
    /\ shutdown = "pending"
    /\ config \in Configs
    /\ tls = FALSE
    /\ pc = "dispatch"
    /\ exit = "none"
    /\ read_buf = 0
    /\ net = 0
    /\ conn = "open"
    /\ framing = CommandMode
    /\ body_done = FALSE
    /\ \E op \in {"MAIL", "RSET"} : cur = [NewCur(state) EXCEPT !.cmd = Line(op)]
    /\ fired_in_tx = FALSE
    /\ wire = <<>>
    /\ sent = 0
    /\ line = 0
    /\ frames = <<>>
    /\ payload = <<>>
    /\ mails = 0
    /\ rcpts = FALSE
    /\ alone = FALSE
    /\ given = <<>>
    /\ rest = <<>>
    /\ made = <<>>

RoutineNext ==
    \/ DoMail /\ UNCHANGED <<aside, history>>
    \/ DoRset /\ UNCHANGED <<aside, history>>

RoutineSpec == RoutineInit /\ [][RoutineNext]_vars

-----------------------------------------------------------------------------
(* The DATA body stream, octet by octet: read_body_data over the lines the *)
(* codec cuts out of what the peer wrote.                                  *)

Crlf == <<"CR", "LF">>

\* the line b".\r\n"
Terminator == <<".">> \o Crlf

SeqsUpTo(S, n) == UNION {[1..k -> S] : k \in 0..n}

\* CRLF-terminated lines, and payloads made of them
BodyLines == {t \o Crlf : t \in SeqsUpTo({".", "a"}, MaxLine)}
Payloads == SeqsUpTo(BodyLines, MaxLines)

RECURSIVE Flatten(_)
Flatten(ls) == IF ls = <<>> THEN <<>> ELSE Head(ls) \o Flatten(Tail(ls))

\* the peer: a '.' is put before every line that starts with '.', and the
\* terminator follows the last line
DotStuff(l) == IF l[1] = "." THEN <<".">> \o l ELSE l

OnTheWire(p) == Flatten([i \in 1..Len(p) |-> DotStuff(p[i])]) \o Terminator

\* the codec in command mode: the frame is the octets up to and including
\* the first CRLF
CrlfAt(b) == {i \in 1..(Len(b) - 1) : b[i] = "CR" /\ b[i + 1] = "LF"}
HasLine(b) == CrlfAt(b) /= {}
LineEnd(b) == 1 + CHOOSE i \in CrlfAt(b) : \A j \in CrlfAt(b) : i <= j
FirstLine(b) == SubSeq(b, 1, LineEnd(b))
AfterLine(b) == SubSeq(b, LineEnd(b) + 1, Len(b))

\* read_body_data, take_while: the stream goes on while the line is not
\* the terminator
TakeWhile(l) == l /= Terminator

\* mutant: every leading '.' is removed
Unstuff_all(l) == SelectSeq(l, LAMBDA c : c /= ".")

\* read_body_data, map: if line.starts_with(b".") { line.split_to(1); }
Unstuff(l) == IF Len(l) > 0 /\ l[1] = "." THEN Tail(l) ELSE l

\* a session whose handler.data is about to read the body the peer wrote
\* for the payload given
DataInit ==
    /\ state = "RCPT"
    /\ shutdown_on_idle = FALSE
    /\ shutdown = "pending"
    /\ config = DefaultConfig
    /\ tls = FALSE
    /\ pc = "data_body"
    /\ exit = "none"
    /\ read_buf = 0
    /\ net = 0
    /\ conn = "open"
    /\ framing = CommandMode
    /\ body_done = FALSE
    /\ cur = Call(Send([NewCur("RCPT") EXCEPT !.cmd = Line("DATA")],
                       ReplySendData), "data")
    /\ fired_in_tx = FALSE
    /\ wire = <<>>
    /\ sent = 0
    /\ line = 0
    /\ frames = <<>>
    /\ payload = <<>>
    /\ mails = 0
    /\ rcpts = FALSE
    /\ alone = FALSE
    /\ given \in Payloads
    /\ rest = OnTheWire(given)
    /\ made = <<>>

\* the handler takes the next item of read_body_data(socket).fuse()
DataStreamNext ==
    /\ pc = "data_body"
    /\ ~body_done
    /\ IF HasLine(rest)
       THEN /\ rest' = AfterLine(rest)
            /\ IF TakeWhile(FirstLine(rest))
               THEN /\ made' = Append(made, Unstuff(FirstLine(rest)))
                    /\ body_done' = FALSE
               ELSE /\ made' = made
                    /\ body_done' = TRUE
       ELSE /\ body_done' = TRUE
            /\ UNCHANGED <<rest, made>>
    /\ UNCHANGED <<engine, numbered, given, history>>

DataSpec == DataInit /\ [][DataStreamNext]_vars

-----------------------------------------------------------------------------
(* The reply formatter (src/src/reply.rs), octet by octet.  The code and   *)
(* the enhanced code are written as one token each.                        *)

\* codes around the two ends of the accepted range
ReplyCodes == {199, 200, 250, 599, 600}

ReplyTexts == SeqsUpTo({"a", "CR", "LF"}, MaxText)

\* Option<EnhancedCode>, as Display writes it
EnhancedCodes == {"none", "2.1.0"}

HasCr(text) == \E i \in 1..Len(text) : text[i] = "CR"

\* Reply::new_checked
new_checked(code, text) ==
    IF code < 200 \/ code >= 600 \/ HasCr(text) THEN "None" ELSE "Some"

\* str::lines: the text is cut after every LF, the LF and a CR before it
\* dropped; what follows the last LF is a line when it is not empty
RECURSIVE Lines(_)
Lines(text) ==
    LET lfs == {i \in 1..Len(text) : text[i] = "LF"}
    IN IF text = <<>> THEN <<>>
       ELSE IF lfs = {} THEN <<text>>
       ELSE LET i == CHOOSE k \in lfs : \A j \in lfs : k <= j
                j == IF i > 1 /\ text[i - 1] = "CR" THEN i - 2 ELSE i - 1
            IN <<SubSeq(text, 1, j)>> \o Lines(SubSeq(text, i + 1, Len(text)))

\* mutant: every line is written with the separator of the last line
Separator_always_space(more) == " "

\* fmt: "{}-" while lines_iter.peek() is Some, "{} " on the last line
Separator(more) == IF more THEN "-" ELSE " "

\* fmt: the enhanced code and a space, when there is one
EcodePart(ecode) == IF ecode = "none" THEN <<>> ELSE <<ecode, " ">>

\* a reply about to be built from a code, an enhanced code and a text
ReplyInit ==
    /\ state = "Initial"
    /\ shutdown_on_idle = FALSE
    /\ shutdown = "pending"
    /\ config = DefaultConfig
    /\ tls = FALSE
    /\ pc = "new_checked"
    /\ exit = "none"
    /\ read_buf = 0
    /\ net = 0
    /\ conn = "open"
    /\ framing = CommandMode
    /\ body_done = FALSE
    /\ cur = NewCur("Initial")
    /\ fired_in_tx = FALSE
    /\ wire = <<>>
    /\ sent = 0
    /\ line = 0
    /\ frames = <<>>
    /\ payload = <<>>
    /\ mails = 0
    /\ rcpts = FALSE
    /\ alone = FALSE
    /\ given \in [code : ReplyCodes, ecode : EnhancedCodes, text : ReplyTexts]
    /\ rest = <<>>
    /\ made = <<>>

ReplyFixed == <<state, shutdown_on_idle, shutdown, config, tls, exit, read_buf,
                net, conn, framing, body_done, cur, fired_in_tx, numbered,
                given, history>>

\* Reply::new_checked, and fmt's lines_iter when a Reply is made
NewChecked ==
    /\ pc = "new_checked"
    /\ IF new_checked(given.code, given.text) = "None"
       THEN pc' = "none" /\ UNCHANGED rest
       ELSE pc' = "fmt" /\ rest' = Lines(given.text)
    /\ UNCHANGED <<made, ReplyFixed>>

\* fmt, one turn of the loop with (Some(line), _)
FmtLine ==
    /\ pc = "fmt"
    /\ rest /= <<>>
    /\ made' = made \o <<ToString(given.code), Separator(Len(rest) > 1)>>
                    \o EcodePart(given.ecode) \o Head(rest) \o <<"CR", "LF">>
    /\ rest' = Tail(rest)
    /\ UNCHANGED <<pc, ReplyFixed>>

\* fmt, (None, _) => break
FmtEnd ==
    /\ pc = "fmt"
    /\ rest = <<>>
    /\ pc' = "done"
    /\ UNCHANGED <<rest, made, ReplyFixed>>

ReplyNext ==
    \/ NewChecked
    \/ FmtLine
    \/ FmtEnd

ReplySpec == ReplyInit /\ [][ReplyNext]_vars

-----------------------------------------------------------------------------
(* Properties                                                              *)

LastReply == cur.replies[Len(cur.replies)]

\* a line has been answered and serve is back at the top of its loop
Answered == pc = "read" /\ cur.cmd /= NoCmd

TableStates == {"Initial", "MAIL", "RCPT", "BDAT"}
TableOps == {"EHLO", "HELO", "MAIL", "RCPT", "DATA", "BDAT", "RSET"}
TransactionOps == {"MAIL", "RCPT", "DATA", "BDAT"}

\* the states in which a transaction command is allowed
Allowed(op) ==
    CASE op = "MAIL" -> {"Initial"}
      [] op = "RCPT" -> {"MAIL", "RCPT"}
      [] op = "DATA" -> {"RCPT"}
      [] op = "BDAT" -> {"RCPT", "BDAT"}
      [] OTHER -> States

\* the table of transitions: the state after a command that succeeded
TableCell(s, cmd) ==
    CASE cmd.op \in {"EHLO", "HELO", "RSET"} -> "Initial"
      [] s \notin Allowed(cmd.op) -> s
      [] cmd.op = "MAIL" -> "MAIL"
      [] cmd.op = "RCPT" -> "RCPT"
      [] cmd.op = "DATA" -> "Initial"
      [] cmd.op = "BDAT" -> IF cmd.last THEN "Initial" ELSE "BDAT"

\* the code of the refusal in a cell that refuses
TableRefusal(s, cmd) ==
    IF cmd.op \in {"DATA", "BDAT"} /\ s = "MAIL" THEN 554 ELSE 503

FollowsTable ==
    /\ state = TableCell(cur.pre, cur.cmd)
    /\ cur.pre \notin Allowed(cur.cmd.op) =>
         /\ Len(cur.replies) = 1
         /\ LastReply.code = TableRefusal(cur.pre, cur.cmd)

TableCase ==
    /\ Answered
    /\ cur.cmd.op \in TableOps
    /\ cur.pre \in TableStates
    /\ cur.res.ok

\* C1 as claimed: for every state in {Initial, MAIL, RCPT, BDAT} and every
\* command among EHLO, HELO, MAIL, RCPT, DATA, BDAT, RSET whose handler
\* callback succeeded and whose body was drained, the state after the
\* command is the cell of the transition table, and a refusing cell leaves
\* the state alone and answers 503 (554 for DATA/BDAT in MAIL).
C1_TableAsClaimed == TableCase => FollowsTable

\* C1 amended: the same, for BDAT only when enable_chunking is set; with
\* enable_chunking unset a BDAT is answered 502 in every state and leaves
\* the state unchanged.
C1_Table ==
    TableCase =>
        IF cur.cmd.op = "BDAT" /\ ~config.enable_chunking
        THEN state = cur.pre /\ cur.replies = <<ReplyNotImplemented>>
        ELSE FollowsTable

\* a non-final BDAT served in RCPT has moved the session to BDAT
C1_Witness ==
    /\ TableCase
    /\ cur.cmd.op = "BDAT" /\ ~cur.cmd.last
    /\ cur.pre = "RCPT"
    /\ state = "BDAT"

ForbiddenCase ==
    /\ cur.cmd.op \in TransactionOps
    /\ cur.pre \notin Allowed(cur.cmd.op)

\* refused with 503 or 554, no callback, no body byte, state unchanged
RefusedUntouched ==
    \/ pc = "dispatch" /\ cur.replies = <<>> /\ cur.calls = {}
    \/ /\ pc = "read"
       /\ Len(cur.replies) = 1
       /\ LastReply.code \in {503, 554}
       /\ cur.calls = {}
       /\ cur.body = 0
       /\ state = cur.pre

\* C2 as claimed: a MAIL, RCPT, DATA or BDAT command forbidden in the
\* current state is answered 503 or 554 without any handler callback,
\* without reading body bytes and with the state unchanged.
C2_ForbiddenAsClaimed == ForbiddenCase => RefusedUntouched

\* C2 amended: the same, for BDAT only when enable_chunking is set; with
\* enable_chunking unset the BDAT is answered 502 instead, still without
\* callback, body bytes or state change.
C2_Forbidden ==
    ForbiddenCase =>
        IF cur.cmd.op = "BDAT" /\ ~config.enable_chunking
        THEN \/ pc = "dispatch" /\ cur.replies = <<>> /\ cur.calls = {}
             \/ /\ pc = "read"
                /\ cur.replies = <<ReplyNotImplemented>>
                /\ cur.calls = {}
                /\ cur.body = 0
                /\ state = cur.pre
        ELSE RefusedUntouched

\* a RCPT read in Initial has been refused
C2_Witness ==
    /\ ForbiddenCase
    /\ pc = "read"
    /\ cur.cmd.op = "RCPT"
    /\ cur.pre = "Initial"
    /\ cur.replies = <<ReplyBadSequence>>

ReplyLevelOps == {"EHLO", "HELO", "MAIL", "RCPT", "DATA"}

\* the default refusal of each routine
DefaultRefusal(op) ==
    CASE op = "HELO" -> ReplyHeloRefused
      [] op = "MAIL" -> ReplyMailRefused
      [] op = "RCPT" -> ReplyRcptRefused
      [] OTHER -> ReplyDataRefused

\* C3: when ehlo, helo, mail, rcpt or data_start returns Err the state is
\* what it was before the command, the session goes on to the next command,
\* and the one reply sent is the handler's when it gave one and a 550
\* default otherwise; after a data_start Err no 354 is sent, handler.data
\* is not called and no body is read.
C3_HandlerErr ==
    (cur.cmd.op \in ReplyLevelOps /\ ~cur.res.ok) =>
        /\ pc = "read"
        /\ state = cur.pre
        /\ cur.replies = <<UnwrapOr(cur.res.reply, DefaultRefusal(cur.cmd.op))>>
        /\ DefaultRefusal(cur.cmd.op).code = 550
        /\ cur.calls \cap {"data", "bdat"} = {}
        /\ cur.body = 0

\* data_start refused a DATA read in RCPT, without a reply of its own
C3_Witness ==
    /\ cur.cmd.op = "DATA"
    /\ cur.pre = "RCPT"
    /\ cur.res = [ok |-> FALSE, reply |-> NoReply]
    /\ pc = "read"

\* C4: RSET in any state leaves the state Initial and is answered 250 OK;
\* so does a second RSET served right after the first.
C4_Rset ==
    (Answered /\ cur.cmd.op = "RSET") =>
        /\ state = "Initial"
        /\ cur.replies = <<ReplyOk>>
        /\ "rset" \in cur.calls

\* a RSET served right after a RSET
C4_Witness ==
    /\ Answered
    /\ cur.cmd.op = "RSET"
    /\ cur.prev = "RSET"
    /\ cur.pre = "Initial"
    /\ state = "Initial"

\* C5: EHLO and HELO reach the handler in every state (no sequence
\* refusal), and when the callback succeeds the state becomes Initial.
C5_Greeting ==
    (Answered /\ cur.cmd.op \in {"EHLO", "HELO"}) =>
        /\ cur.calls = {IF cur.cmd.op = "EHLO" THEN "ehlo" ELSE "helo"}
        /\ Len(cur.replies) = 1
        /\ LastReply.code \notin {503, 554}
        /\ cur.res.ok => state = "Initial"
        /\ ~cur.res.ok => LastReply = UnwrapOr(cur.res.reply, ReplyHeloRefused)

\* an EHLO accepted in the middle of a chunked transfer
C5_Witness ==
    /\ Answered
    /\ cur.cmd.op = "EHLO"
    /\ cur.pre = "BDAT"
    /\ cur.res.ok
    /\ state = "Initial"

Replies == {cur.replies[i] : i \in 1..Len(cur.replies)}

\* C6: the session never sends 421 nor leaves by Shutdown while the state is
\* MAIL, RCPT or BDAT: whenever the 421 has been sent the session has left
\* with Done, at a command read (no line taken) whose state is Initial or
\* BDATFAIL.
C6_NoShutdownInTransaction ==
    ReplyShutdown \in Replies =>
        /\ pc = "exit"
        /\ exit = "Done"
        /\ cur.cmd = NoCmd
        /\ cur.replies = <<ReplyShutdown>>
        /\ state \in {"Initial", "BDATFAIL"}

\* a command is dispatched in RCPT after the signal has been latched
C6_Witness ==
    /\ shutdown_on_idle
    /\ shutdown = "terminated"
    /\ state = "RCPT"
    /\ pc = "dispatch"

\* C7 as claimed: when the signal fired while a transaction was open, the
\* command read that follows the body command, begun in Initial, ends the
\* session with 421 and takes no line: no line is ever taken by such a
\* read.
C7_GracefulAsClaimed ==
    (fired_in_tx /\ cur.prev \in {"DATA", "BDAT"} /\ cur.pre = "Initial") =>
        cur.cmd = NoCmd

\* C8: when STARTTLS is accepted and the read buffer is not empty the
\* session ends with Pipelining, no 220 is written and no upgrade is
\* returned; nothing happens after that exit, so no buffered unit is ever
\* parsed or dispatched.
C8_NoSmuggling ==
    /\ [](/\ (pc = "exit" /\ cur.cmd.op = "STARTTLS" /\ read_buf > 0) =>
               /\ exit = "Pipelining"
               /\ cur.replies = <<>>
          /\ exit = "STARTTLS" => read_buf = 0)
    /\ [][exit /= "Pipelining"]_vars

\* the session has ended with Pipelining, a unit still in the read buffer
C8_Witness ==
    /\ pc = "exit"
    /\ exit = "Pipelining"
    /\ cur.cmd.op = "STARTTLS"
    /\ "tls_request" \in cur.calls
    /\ read_buf > 0

C10_TruncatedAsClaimed ==
    (cur.cmd.op = "DATA" /\ (cur.trunc \/ cur.err)) =>
        /\ pc /= "read"
        /\ state /= "Initial"

\* handler.data or handler.bdat returned Ok before its stream yielded its end
EarlyReturn ==
    /\ cur.cmd.op \in {"DATA", "BDAT"}
    /\ cur.ret.how = "ok"
    /\ ~body_done

\* the session ended with DataAbort, the state not advanced
Aborted ==
    /\ pc = "exit"
    /\ exit = "DataAbort"
    /\ state = (IF cur.cmd.op = "DATA" THEN cur.pre ELSE "BDATFAIL")
    /\ state \notin {"Initial", "BDAT"}

C12_SyntaxError ==
    (cur.cmd /= NoCmd /\ Parse(cur.cmd) /= "Ok") =>
        /\ pc = "read"
        /\ exit = "none"
        /\ cur.replies = <<ReplySyntaxError>>
        /\ cur.calls = {}
        /\ cur.body = 0
        /\ state = cur.pre
        /\ framing = CommandMode

\* a command with trailing bytes read in the middle of a chunked transfer
C12_Witness ==
    /\ cur.cmd = Line("TRAIL")
    /\ cur.pre = "BDAT"
    /\ state = "BDAT"
    /\ pc = "read"
    /\ cur.replies = <<ReplySyntaxError>>

\* handler.bdat drained its chunk stream and returned Ok, the peer having
\* sent the whole chunk
ChunkDone ==
    /\ cur.cmd.op = "BDAT"
    /\ cur.ret.how = "ok"
    /\ body_done
    /\ ~cur.trunc
    /\ ~cur.err

\* C13: when a BDAT of a transaction has been served, the units yielded to
\* handler.bdat over the calls of the transaction are, in order, exactly
\* the units the peer sent right after each BDAT line, as many as the sizes
\* announce; the state is Initial after the last chunk and BDAT otherwise,
\* the codec is back in command mode at the top of the loop, and the first
\* unit in flight is the one that follows the payload.
C13_Chunks ==
    ChunkDone =>
        /\ frames = payload
        /\ Len(frames) >= cur.cmd.size
        /\ \A i \in 1..cur.cmd.size :
             frames[Len(frames) - cur.cmd.size + i] = line + i
        /\ state = (IF cur.cmd.last THEN "Initial" ELSE "BDAT")
        /\ pc = "read"
        /\ framing = CommandMode
        /\ wire /= <<>> => wire[1].id = line + cur.cmd.size + 1

\* a transaction of two chunks has been delivered, a unit following it
C13_Witness ==
    /\ ChunkDone
    /\ cur.cmd.last
    /\ cur.cmd.size = 1
    /\ Len(payload) > cur.cmd.size
    /\ frames = payload
    /\ state = "Initial"

\* C14: for a payload of CRLF-terminated lines, dot-stuffed and followed by
\* the terminator line, the frames the DATA stream yields are at every
\* moment the first lines of the payload, each with its CRLF and with the
\* one '.' that was put before it removed; when the stream has ended the
\* frames are the whole payload, octet for octet, the terminator is not
\* among them and nothing is left of what the peer wrote.
C14_RoundTrip ==
    /\ Len(made) <= Len(given)
    /\ made = SubSeq(given, 1, Len(made))
    /\ body_done =>
         /\ made = given
         /\ Flatten(made) = Flatten(given)
         /\ rest = <<>>

\* a payload with the line ".\r\n" and a line "..\r\n" has been read through
C14_Witness ==
    /\ body_done
    /\ given = <<Terminator, <<".", ".">> \o Crlf>>
    /\ made = given

\* the logical lines of a text: one for every LF, and one more for what
\* follows the last LF when that is not empty
LogicalLines(text) ==
    Cardinality({i \in 1..Len(text) : text[i] = "LF"})
        + (IF text /= <<>> /\ text[Len(text)] /= "LF" THEN 1 ELSE 0)

\* where the physical lines of the output end and start
LineEnds == {i \in 1..Len(made) : made[i] = "LF"}
LineStarts == {i \in 1..Len(made) : i = 1 \/ made[i - 1] = "LF"}

\* C15: new_checked returns nothing exactly when the code is outside
\* 200..=599 or the text contains CR; for a reply it does make, the output
\* has one physical line per logical line of the text, every physical line
\* ends in CRLF, no CR occurs anywhere else, every line but the last starts
\* with the code and '-' and the last line, and only it, with the code and
\* a space.
C15_Serialised ==
    /\ pc /= "new_checked" =>
         (pc = "none" <=>
            (given.code \notin 200..599 \/ HasCr(given.text)))
    /\ pc = "done" =>
         /\ Cardinality(LineEnds) = LogicalLines(given.text)
         /\ made /= <<>> => made[Len(made)] = "LF"
         /\ \A i \in LineEnds : i > 1 /\ made[i - 1] = "CR"
         /\ \A i \in 1..Len(made) :
              made[i] = "CR" => (i < Len(made) /\ made[i + 1] = "LF")
         /\ \A i \in LineStarts :
              /\ made[i] = ToString(given.code)
              /\ made[i + 1] =
                   (IF \E j \in LineStarts : j > i THEN "-" ELSE " ")

\* a reply of two lines, with an enhanced code, has been written
C15_Witness ==
    /\ pc = "done"
    /\ given = [code |-> 250, ecode |-> "2.1.0", text |-> <<"a", "LF", "a">>]
    /\ Cardinality(LineStarts) = 2

\* C16 as claimed: with MAIL and RCPT accepted (state RCPT) and a DATA
\* command served, the BDAT command read right after it is answered with
\* 503 BDAT may not be mixed with DATA (chunking enabled).
C16_MixingAsClaimed ==
    (/\ pc = "read"
     /\ config.enable_chunking
     /\ cur.cmd.op = "BDAT"
     /\ cur.prev = "DATA"
     /\ cur.pre = "RCPT") => cur.replies = <<ReplyMixed>>

\* C16 amended: 503 BDAT may not be mixed with DATA is the answer to a DATA
\* command read while a chunked transfer is open (state BDAT or BDATFAIL):
\* it is the only reply, no callback is invoked, no body is read and the
\* state stays; it is never sent to a BDAT command nor in any other state.
C16_Mixing ==
    /\ (/\ cur.cmd.op = "DATA"
        /\ cur.pre \in {"BDAT", "BDATFAIL"}
        /\ pc /= "dispatch") =>
            /\ pc = "read"
            /\ cur.replies = <<ReplyMixed>>
            /\ cur.calls = {}
            /\ cur.body = 0
            /\ state = cur.pre
    /\ ReplyMixed \in Replies =>
            /\ cur.cmd.op = "DATA"
            /\ cur.pre \in {"BDAT", "BDATFAIL"}

\* MAIL, RCPT and a first chunk accepted, the DATA that follows refused
C16_Witness ==
    /\ pc = "read"
    /\ cur.cmd.op = "DATA"
    /\ cur.prev = "BDAT"
    /\ cur.pre = "BDAT"
    /\ cur.replies = <<ReplyMixed>>

\* a MAIL command has been served in BDATFAIL
MailInBdatFail ==
    /\ pc = "read"
    /\ cur.cmd.op = "MAIL"
    /\ cur.pre = "BDATFAIL"

IdleRead ==
    /\ pc = "read"
    /\ shutdown_on_idle
    /\ state \in {"Initial", "BDATFAIL"}

\* the select has just returned Either::Right
Latching == pc = "select" /\ ~shutdown_on_idle /\ shutdown_on_idle'

\* C18: shutdown_on_idle, once true, stays true; with the flag set, a
\* command read that begins in Initial or BDATFAIL sends 421 Shutting down
\* and leaves with Done without taking anything from the stream; when the
\* flag is set during the wait for a line in MAIL, RCPT or BDAT the session
\* goes on waiting for that line with nothing sent, and the wait ends only
\* with the line taken (dispatched, or answered 500) or the stream ending,
\* never with the shutdown.
C18_Latch ==
    [][/\ shutdown_on_idle => shutdown_on_idle'
       /\ (IdleRead /\ pc' /= pc) =>
            /\ pc' = "exit"
            /\ exit' = "Done"
            /\ cur'.replies = <<ReplyShutdown>>
            /\ cur'.cmd = NoCmd
            /\ read_buf' = read_buf /\ net' = net
       /\ (Latching /\ state \in {"MAIL", "RCPT", "BDAT"}) =>
            /\ pc' = "await_line"
            /\ exit' = "none"
            /\ cur' = cur
            /\ state' = state
       /\ (pc = "await_line" /\ pc' /= pc) =>
            /\ ReplyShutdown \notin {cur'.replies[i] : i \in 1..Len(cur'.replies)}
            /\ \/ pc' = "dispatch" /\ cur'.cmd /= NoCmd
               \/ pc' = "read" /\ cur'.replies = <<ReplySyntaxError>>
               \/ pc' = "exit" /\ exit' \in {"EOF", "IO", "Framing"}]_vars

\* the flag was latched inside a transaction and the command read after
\* the body ended the session with 421
C18_Witness ==
    /\ fired_in_tx
    /\ shutdown_on_idle
    /\ cur.prev \in {"DATA", "BDAT"}
    /\ pc = "exit"
    /\ exit = "Done"
    /\ cur.replies = <<ReplyShutdown>>

\* C19: the 220 starting TLS is written only by the step that follows the
\* flush and the test of the read buffer, with the read buffer empty; that
\* step is reached only from the flush; a session that has failed with
\* Pipelining has written nothing; LoopExit::STARTTLS is returned only with
\* the 220 written as the last thing on the stream.
C19_Handoff ==
    /\ [](/\ ReplyStartingTls \in Replies =>
               /\ pc = "exit"
               /\ exit = "STARTTLS"
               /\ cur.cmd.op = "STARTTLS"
               /\ read_buf = 0
          /\ pc = "tls_write" => (read_buf = 0 /\ cur.replies = <<>>)
          /\ exit = "Pipelining" => cur.replies = <<>>
          /\ exit = "STARTTLS" => cur.replies = <<ReplyStartingTls>>)
    /\ [][/\ (ReplyStartingTls \notin Replies
                /\ ReplyStartingTls \in {cur'.replies[i] : i \in 1..Len(cur'.replies)})
               => pc = "tls_write"
          /\ (pc /= "tls_write" /\ pc' = "tls_write") => pc = "tls_flush"
          /\ (pc /= "tls_flush" /\ pc' = "tls_flush") =>
                (pc = "dispatch" /\ cur.replies = <<>>)]_vars

\* the upgrade has been returned for a STARTTLS that followed an EHLO
C19_Witness ==
    /\ pc = "exit"
    /\ exit = "STARTTLS"
    /\ cur.prev = "EHLO"
    /\ cur.replies = <<ReplyStartingTls>>
    /\ read_buf = 0

\* the commands the dispatcher does not implement under the configuration
Unimplemented ==
    \/ cur.cmd.op = "NOOP"
    \/ cur.cmd.op = "BDAT" /\ ~config.enable_chunking
    \/ cur.cmd.op = "STARTTLS" /\ ~config.enable_starttls

TransactionCalls == {"mail", "rcpt", "data_start", "data", "bdat", "rset"}

\* C20: STARTTLS with enable_starttls unset, BDAT with enable_chunking
\* unset and NOOP, HELP, VRFY are answered 502 Command not implemented, and
\* so is a STARTTLS for which the handler offers no TLS configuration;
\* whenever a command has been answered 502 it is one of these, the state
\* is what it was, no body was read, the codec is in command mode, none of
\* mail, rcpt, data_start, data, bdat, rset was invoked and the session is
\* at the next command read.
C20_NotImplemented ==
    /\ (Answered /\ Unimplemented) => cur.replies = <<ReplyNotImplemented>>
    /\ (cur.cmd.op \in {"NOOP", "BDAT", "STARTTLS"} /\ Unimplemented) =>
         cur.calls = {}
    /\ ReplyNotImplemented \in Replies =>
         /\ \/ Unimplemented
            \/ cur.cmd.op = "STARTTLS" /\ cur.calls = {"tls_request"}
         /\ cur.replies = <<ReplyNotImplemented>>
         /\ pc = "read"
         /\ exit = "none"
         /\ state = cur.pre
         /\ cur.body = 0
         /\ framing = CommandMode
         /\ cur.calls \cap TransactionCalls = {}

\* a BDAT read in RCPT with chunking disabled has been answered 502
C20_Witness ==
    /\ Answered
    /\ cur.cmd.op = "BDAT"
    /\ ~config.enable_chunking
    /\ cur.pre = "RCPT"
    /\ state = "RCPT"
    /\ cur.replies = <<ReplyNotImplemented>>

\* the step assigns State::BDATFAIL
IntoBdatFail == state /= "BDATFAIL" /\ state' = "BDATFAIL"

\* C21: the state becomes BDATFAIL only in the step in which handler.bdat
\* returns, with Err or with Ok before its chunk stream yielded its end, and
\* in that same step serve returns the error (the handler's, or DataAbort);
\* so whenever the state is BDATFAIL the session has ended with that error,
\* no command is being read or dispatched, and no step of the session
\* follows; when the handler returned Err nothing was sent for that BDAT.
C21_BdatFail ==
    /\ [][IntoBdatFail =>
            /\ pc = "bdat_body"
            /\ pc' = "exit"
            /\ exit' \in {"Handler", "DataAbort"}
            /\ cur'.ret.how = (IF exit' = "Handler" THEN "err" ELSE "ok")
            /\ exit' = "DataAbort" => ~body_done]_vars
    /\ [](state = "BDATFAIL" =>
            /\ pc = "exit"
            /\ exit \in {"Handler", "DataAbort"}
            /\ cur.cmd.op = "BDAT"
            /\ exit = "Handler" => cur.replies = <<>>
            /\ exit = "DataAbort" =>
                 cur.replies = <<UnwrapOr(cur.ret.reply, ReplyDataAbort)>>)
    /\ [][state /= "BDATFAIL"]_vars

\* handler.bdat returned Err on the second chunk of a transaction
C21_Witness ==
    /\ state = "BDATFAIL"
    /\ cur.pre = "BDAT"
    /\ cur.ret.how = "err"
    /\ exit = "Handler"
    /\ cur.replies = <<>>

\* the handler holds a body stream
InBody == pc \in {"data_body", "bdat_body"}

\* read_command is awaiting a line
AtParser == pc \in {"select", "await_line"}

\* the units the body of the command at line has taken from the
\* connection: the frames of a DATA body and its terminator, or the chunk
Consumed ==
    IF cur.cmd.op = "DATA" THEN Len(frames) + (IF cur.trunc THEN 0 ELSE 1)
    ELSE cur.cmd.size

\* a body has been served and serve is back at the top of its loop
BodyServed ==
    /\ pc = "read"
    /\ cur.cmd.op \in {"DATA", "BDAT"}
    /\ cur.ret.how = "ok"

\* C22: on the numbered wire, from the moment handler.data or handler.bdat
\* is given its stream until it returns, every unit taken from the
\* connection is yielded to the handler as body or is the DATA terminator,
\* and none is given to the command parser (no line is read as a command
\* and the command being served stays); the body ends either drained,
\* serve going back to read_command with the first unit in flight the one
\* right after the terminator or the chunk, or with serve returning an
\* error, after which nothing is read; a unit read as a command is always
\* the first one in flight, which was never yielded as body.
C22_BodyNotCommands ==
    /\ [][InBody =>
            /\ line' = line
            /\ cur'.cmd = cur.cmd
            /\ Taken > 0 =>
                 \/ frames' = frames \o Numbers(Taken)
                 \/ /\ pc = "data_body"
                    /\ Taken = 1
                    /\ wire[1].unit = Line("DOT")
                    /\ frames' = frames
                    /\ body_done'
            /\ pc' \notin {pc, "exit"} => (pc' = "read" /\ body_done)]_vars
    /\ [](BodyServed =>
            /\ body_done
            /\ wire /= <<>> => wire[1].id = line + Consumed + 1
            /\ \A i \in 1..Len(frames) : frames[i] <= line + Consumed)
    /\ [][line' /= line =>
            /\ AtParser
            /\ line' = wire[1].id
            /\ \A i \in 1..Len(frames) : frames[i] /= line'
            /\ framing = CommandMode]_vars
    /\ [][(pc \in {"read", "select", "await_line"} /\ line' = line
                /\ wire /= <<>>) =>
            (wire' /= <<>> /\ wire'[1] = wire[1])]_vars
    /\ [][pc /= "exit"]_vars

\* a DATA body of one line that reads like a command was served, the
\* terminator taken, and the line after it is the next to be read
C22_Witness ==
    /\ BodyServed
    /\ cur.cmd.op = "DATA"
    /\ Len(frames) = 1
    /\ ~cur.trunc
    /\ wire /= <<>>
    /\ wire[1].id = line + 3
    /\ state = "Initial"

\* C23: while handler.data or handler.bdat runs, handler.mail has returned
\* Ok exactly once and handler.rcpt at least once since the state was last
\* Initial, and the command was read in RCPT (or in BDAT, for a chunk);
\* handler.mail is called only for a MAIL read in Initial, never with a
\* transaction open; the state is MAIL, RCPT or BDAT only with one accepted
\* MAIL, and RCPT or BDAT only with an accepted recipient.
C23_OpenTransaction ==
    /\ InBody =>
         /\ mails = 1
         /\ rcpts
         /\ cur.pre = state
         /\ state \in (IF pc = "data_body" THEN {"RCPT"} ELSE {"RCPT", "BDAT"})
    /\ "mail" \in cur.calls =>
         /\ cur.pre = "Initial"
         /\ mails = (IF cur.res.ok /\ state /= "Initial" THEN 1 ELSE 0)
    /\ mails = (IF state = "Initial" THEN 0 ELSE 1)
    /\ state \in {"RCPT", "BDAT"} => rcpts
    /\ state = "MAIL" => ~rcpts

\* handler.bdat runs on a later chunk of a transaction
C23_Witness ==
    /\ pc = "bdat_body"
    /\ cur.pre = "BDAT"
    /\ cur.prev = "BDAT"
    /\ mails = 1
    /\ rcpts

\* the signal has completed: a poll of it has returned Ready
Completed == shutdown = "terminated"

\* C24: read_command selects against the shutdown signal only while the
\* signal has not completed: a completed signal stays completed, the flag
\* shutdown_on_idle is set exactly when it has completed (in the select
\* that returned Either::Right, or from the start of a leg that began with
\* it completed), and from then on every command read that goes past
\* shutdown_check awaits the line reader alone; the select is entered only
\* from the top of read_command.
C24_NoPollAfterCompletion ==
    /\ [](/\ pc = "select" => ~Completed
          /\ shutdown_on_idle <=> Completed
          /\ alone => Completed)
    /\ [][/\ Completed => Completed'
          /\ (pc /= "select" /\ pc' = "select") => (pc = "read" /\ ~Completed)
          /\ (~Completed /\ Completed') => (pc = "select" /\ pc' /= "select")
          /\ (pc = "read" /\ Completed /\ pc' /= pc) =>
               \/ pc' = "await_line" /\ state \in {"MAIL", "RCPT", "BDAT"}
               \/ pc' = "exit" /\ exit' = "Done"]_vars

\* the signal completed in a command read inside a transaction, and a
\* command read after that one has taken its line from the reader alone
C24_Witness ==
    /\ alone
    /\ Completed
    /\ pc = "dispatch"
    /\ state = "RCPT"
    /\ cur.prev = "RCPT"

====
